---- MODULE Spec2Model ----
(***************************************************************************)
(* NIMB, the IRC <-> Matrix bridge of src/nimb.py, as a state machine.     *)
(*                                                                         *)
(* Every client of the list built by create_clients runs on a thread of    *)
(* its own (run, lines 494-505); thread t executes clients[t].run().  A    *)
(* thread that receives a message calls the shared callback, which walks   *)
(* the client list and calls forward_message on each client in turn, on    *)
(* the receiving thread.                                                   *)
(*                                                                         *)
(* The environment is the two networks: it accepts or refuses connections, *)
(* drops them, and delivers lines (IRC) or timeline events (Matrix).       *)
(***************************************************************************)
EXTENDS Integers, Sequences, FiniteSets, TLC

VARIABLES
    clients_config,   \* config["clients"], the argument of create_clients
    created,          \* create_clients: "no" not called yet, "yes" returned, "failed" raised
    prefix,           \* _send_message under test: length of the prefix
    body,             \* _send_message under test: the message, a sequence of characters
    wire,             \* _send_message under test: the chunks written, in order
    clients,          \* the list create_clients returns (fixed after start)
    users,            \* nicknames / user ids that appear on the networks
    tokens,           \* sync tokens the Matrix homeserver hands out
    faults,           \* failures the environment may still inject
    msgs,             \* lines / events the environment may still deliver
    budget,           \* failures and lines together it may still produce
    pc,               \* where each client's thread stands
    running,          \* client.running
    recovery_delay,   \* client._recovery_delay
    link,             \* state of client._socket (IRC) or of the session (Matrix)
    lock,             \* client._lock: 0 when free, else the thread holding it
    writing,          \* the client whose connection thread t is writing to, or 0
    step,             \* lines sent by _auth, channels done by _join
    lines,            \* lines (events) of the current chunk (response) not yet read
    jobs,             \* channels left in the NICK / QUIT loop of _monitor
    dest,             \* to_labels of the callback in progress
    pend,             \* <<client, binding>> pairs the callback has still to serve
    calls,            \* <<client, binding>> pairs the callback has called so far
    error,            \* the exception that ended the thread's last lifecycle
    channel_nicks,    \* IRCClient._channel_nicks
    room_id,          \* rooms of a Matrix client whose room_id is recorded
    next_batch,       \* MatrixClient._next_batch (0 is None)
    streak,           \* failed lifecycles since the last processed message
    initial,          \* cursor stored by the latest initial sync
    retry,            \* held: the cursor held when a poll failed and no poll
                      \* was made since (0: none); since: for the latest poll,
                      \* when it followed a failed one, the cursor held at the
                      \* failure, the cursor carried, and the initial one
    txn,              \* MatrixClient._txn
    txns,             \* transaction identifiers of the sends made on a client, in order
    last,             \* the line (event) the monitor loop took most recently
    joined,           \* <<channel, nick>> whose latest JOIN / PART since _join was a JOIN
    pure,             \* channels that saw only JOIN and PART lines since _join
    learned,          \* nicks named by lines of the current connection
    stale,            \* _channel_nicks as it was when the current connection was made
    before,           \* _channel_nicks as it was when the latest NICK line was taken
    notices,          \* bindings whose "to" the callback was called with for the latest line
    head,             \* number of events the server's timeline holds for a client
    at,               \* place in the timeline that _next_batch stands for
    upto,             \* place in the timeline where the latest poll response ends
    taken,            \* place of the latest event the loop of _new_sync read
    emitted,          \* places of the events a client gave to the callback, in order
    lost              \* places of the events left unread by a lifecycle that failed

(* What only create_clients and the _send_message under test touch.        *)
setup == <<clients_config, created, prefix, body, wire>>

(* The record of the membership events.                                    *)
record == <<joined, pure, learned, stale, before, notices>>

(* The server's timeline and what became of its events.                    *)
feed == <<head, at, upto, taken, emitted, lost>>

vars == <<setup, clients, users, tokens, faults, msgs, budget, pc, running,
          recovery_delay, link, lock, writing, step, lines, jobs, dest, pend,
          calls, error, channel_nicks, room_id, next_batch, streak, initial,
          retry, txn, txns, last, record, feed>>

----------------------------------------------------------------------------
(* Bounds of the model. *)

MaxEvents == 2
SoloFaults == 14
SoloMsgs == 1
MaxBatch == 2
MaxStreak == 13
PairEvents == 1
PollEvents == 3
PollFaults == 1
MaxConfig == 4
RosterEvents == 3
RosterFaults == 1
RelayEvents == 2
MaxBody == 4
MaxSize == 3

(* Constants of the program. *)

IrcCap == 3600
MatrixCap == 60
Floor == 1
AuthLines == 3
LineLimit == 400

----------------------------------------------------------------------------
(* Configurations. *)

Bridge ==
    << [type |-> "irc",
        channels |-> << [channel |-> "#a", label |-> "a", to |-> {"m", "c"}] >>],
       [type |-> "matrix",
        rooms |-> << [room |-> "!m", label |-> "m", to |-> {"a", "c"}],
                     [room |-> "!n", label |-> "n", to |-> {"z"}] >>],
       [type |-> "irc",
        channels |-> << [channel |-> "#c", label |-> "c", to |-> {"a", "m"}] >>] >>

SoloIrc ==
    << [type |-> "irc",
        channels |-> << [channel |-> "#a", label |-> "a", to |-> {"b"}],
                        [channel |-> "#b", label |-> "b", to |-> {"a"}] >>] >>

SoloMatrix ==
    << [type |-> "matrix",
        rooms |-> << [room |-> "!m", label |-> "m", to |-> {"n"}],
                     [room |-> "!n", label |-> "n", to |-> {"m"}] >>] >>

(* One IRC channel and one Matrix room relayed to each other.              *)
Pair ==
    << [type |-> "irc",
        channels |-> << [channel |-> "#a", label |-> "a", to |-> {"m"}] >>],
       [type |-> "matrix",
        rooms |-> << [room |-> "!m", label |-> "m", to |-> {"a"}] >>] >>

(* One IRC channel and one Matrix room, each relayed to both.              *)
Relay ==
    << [type |-> "irc",
        channels |-> << [channel |-> "#a", label |-> "a", to |-> {"a", "m"}] >>],
       [type |-> "matrix",
        rooms |-> << [room |-> "!m", label |-> "m", to |-> {"a", "m"}] >>] >>

(* One IRC client in three channels, each relayed to the next.             *)
Trio ==
    << [type |-> "irc",
        channels |-> << [channel |-> "#a", label |-> "a", to |-> {"b"}],
                        [channel |-> "#b", label |-> "b", to |-> {"c"}],
                        [channel |-> "#c", label |-> "c", to |-> {"a"}] >>] >>

Unbound == "#zz"

(* Entries a configuration may hold: one of each known type and one of a   *)
(* type create_clients does not know.                                      *)
Entries ==
    {[type |-> "irc", channels |-> <<>>],
     [type |-> "matrix", rooms |-> <<>>],
     [type |-> "xmpp"]}

Configs == UNION {[1..n -> Entries] : n \in 0..MaxConfig}

----------------------------------------------------------------------------
(* Helpers. *)

Idx == DOMAIN clients

Type(c) == clients[c].type

Bindings(c) == IF Type(c) = "irc" THEN clients[c].channels ELSE clients[c].rooms

ChannelNames(c) == {clients[c].channels[b].channel : b \in DOMAIN clients[c].channels}

Min(a, b) == IF a < b THEN a ELSE b

RECURSIVE Pow2(_)
Pow2(k) == IF k = 0 THEN 1 ELSE 2 * Pow2(k - 1)

Cap(c) == IF Type(c) = "irc" THEN IrcCap ELSE MatrixCap

(* Variant: a supervisor that doubles without the cap.                     *)
BackoffUncapped(d, cap) == d * 2

Backoff(d, cap) == Min(d * 2, cap)

NoError == [kind |-> "none", by |-> 0]

(* Variant: a supervisor that loops whatever the flag says.                *)
WhileTrue(t) == "connect"

(* "while self.running:" at the head of run: another lifecycle, or return. *)
WhileRunning(t) == IF running[t] THEN "connect" ELSE "done"

(* Variant: a read loop that never looks at the flag.                      *)
AfterLineBlocking(t, k) == IF k > 0 THEN "mon" ELSE "recv"

(* Where the monitor loop stands with k lines (events) of the chunk        *)
(* (response) left: at the next line; else at "while self.running:" of     *)
(* _recv (MatrixClient._monitor), which blocks in the next read (poll) or  *)
(* ends the loop, and with it _monitor and _run.                           *)
AfterLine(t, k) ==
    IF k > 0 THEN "mon" ELSE IF running[t] THEN "recv" ELSE WhileRunning(t)

(* forward_message: the bindings of client c whose label is in to_labels,  *)
(* in configuration order.                                                 *)
Matching(c, to_labels) ==
    SelectSeq([b \in 1..Len(Bindings(c)) |-> b],
              LAMBDA b : Bindings(c)[b].label \in to_labels)

RECURSIVE TargetsFrom(_, _)
TargetsFrom(c, to_labels) ==
    IF c > Len(clients) THEN <<>>
    ELSE [i \in 1..Len(Matching(c, to_labels)) |-> <<c, Matching(c, to_labels)[i]>>]
         \o TargetsFrom(c + 1, to_labels)

(* callback: every client in list order, each with its matching bindings.  *)
Targets(to_labels) == TargetsFrom(1, to_labels)

FindChannelConfig(c, name) ==
    {b \in DOMAIN clients[c].channels : clients[c].channels[b].channel = name}

(* Variant: a lookup that returns every channel, member or not.            *)
FindEveryChannel(c, nick) == [b \in 1..Len(clients[c].channels) |-> b]

FindChannelsContainingNick(c, nick) ==
    SelectSeq([b \in 1..Len(clients[c].channels) |-> b],
              LAMBDA b : /\ clients[c].channels[b].channel \in DOMAIN channel_nicks[c]
                         /\ nick \in channel_nicks[c][clients[c].channels[b].channel])

----------------------------------------------------------------------------
(* Lines the IRC network may deliver (after _parse_line) and events a      *)
(* Matrix sync response may carry.                                         *)

Line(cmd, chan, who, new) == [cmd |-> cmd, chan |-> chan, who |-> who, new |-> new]

(* _parse_line returns for a line that holds a command; it raises for an   *)
(* empty line (line[0], IndexError) and for a line that is only a prefix   *)
(* (the unpacking of line[1:].split(maxsplit=1), ValueError).              *)
Parses(e) == e.cmd \notin {"EMPTY", "PREFIX"}

IrcLines(t) ==
    {Line(k, "", "", "") : k \in {"PING", "OTHER", "EMPTY", "PREFIX"}}
    \cup {Line(k, ch, u, "") : k \in {"353", "PRIVMSG", "JOIN", "PART"},
                               ch \in ChannelNames(t) \cup {Unbound}, u \in users}
    \cup {Line("NICK", "", u, v) : u \in users, v \in users}
    \cup {Line("QUIT", "", u, "") : u \in users}

(* A timeline event of a configured room: its type (m.room.message,        *)
(* m.room.member with membership join or leave, m.room.member with another *)
(* membership, or any other type) and whether its sender is _username.     *)
MatrixEvents(t) ==
    {[kind |-> k, own |-> o, room |-> r] :
        k \in {"other", "message", "member", "member_other"},
        o \in BOOLEAN, r \in DOMAIN clients[t].rooms}

(* The two "continue" of _read_room_messages: an event of another type,    *)
(* then an event whose sender is the client's own username.                *)
Filtered(t, e) == e.kind = "other" \/ e.own

(* No line taken yet.                                                      *)
NoLine == [cmd |-> "none"]

Job(b, op, who, new) == [b |-> b, op |-> op, who |-> who, new |-> new]

(* Variant: a roster that keeps a nick that has left.                      *)
RosterKeepsParted(set, op, who, new) ==
    CASE op = "add" -> set \cup {who}
      [] op = "rename" -> (set \ {who}) \cup {new}
      [] OTHER -> set

(* The membership update _monitor makes for one channel of one event.      *)
Roster(set, op, who, new) ==
    CASE op = "add" -> set \cup {who}
      [] op = "discard" -> set \ {who}
      [] op = "rename" -> (set \ {who}) \cup {new}
      [] OTHER -> set

----------------------------------------------------------------------------
(* Building blocks shared by the actions. *)

(* An exception leaves _run: run's handler logs it and sleeps.             *)
Raise(t, kind, by) ==
    /\ pc' = [pc EXCEPT ![t] = "sleep"]
    /\ error' = [error EXCEPT ![t] = [kind |-> kind, by |-> by]]
    /\ streak' = [streak EXCEPT ![t] = Min(@ + 1, MaxStreak)]
    /\ lines' = [lines EXCEPT ![t] = 0]
    /\ jobs' = [jobs EXCEPT ![t] = <<>>]
    /\ step' = [step EXCEPT ![t] = 0]

(* Variant: a monitor that leaves the delay alone after a message.         *)
ProcessedKeepsDelay(t) ==
    /\ UNCHANGED recovery_delay
    /\ streak' = [streak EXCEPT ![t] = 0]

(* "self._recovery_delay = 1" after a processed message.                   *)
Processed(t) ==
    /\ recovery_delay' = [recovery_delay EXCEPT ![t] = Floor]
    /\ streak' = [streak EXCEPT ![t] = 0]

(* "with self._lock:" on entry and on exit.                                *)
Acquire(t, c) == lock[c] = 0 /\ lock' = [lock EXCEPT ![c] = t]

(* Variant: a send that returns with the lock still held.                  *)
ReleaseSkipped(t, c) == UNCHANGED lock

(* The end of "with self._lock:", by return or by exception.               *)
Release(t, c) == lock' = [lock EXCEPT ![c] = 0]

(* A send on client c's connection succeeds when the connection is usable  *)
(* (and, for a Matrix room, when _join has recorded its room_id).          *)
CanSend(c) == link[c] = "up"

(* callback(to_labels, ...) is entered: nothing called yet.                *)
StartRoute(t, to_labels) ==
    /\ dest' = [dest EXCEPT ![t] = to_labels]
    /\ pend' = [pend EXCEPT ![t] = Targets(to_labels)]
    /\ calls' = [calls EXCEPT ![t] = <<>>]

(* One pass of the NICK / QUIT loop, or the single channel of a PRIVMSG,   *)
(* JOIN or PART: update the roster, then call the callback.                *)
StartJob(t, j) ==
    LET ch == clients[t].channels[j.b] IN
    /\ channel_nicks' = [channel_nicks EXCEPT
                           ![t][ch.channel] = Roster(@, j.op, j.who, j.new)]
    /\ StartRoute(t, ch.to)

----------------------------------------------------------------------------
(* The supervisor: run (lines 84-93 and 324-333).                          *)

(* The thread starts: "while self.running:" for the first time.           *)
LoopTest(t) ==
    /\ pc[t] = "loop"
    /\ pc' = [pc EXCEPT ![t] = WhileRunning(t)]
    /\ UNCHANGED <<feed, txn, txns, last, record>>
    /\ UNCHANGED <<setup, clients, users, tokens, faults, budget, msgs, running, recovery_delay,
                   link, lock, writing, step, lines, jobs, dest, pend, calls,
                   error, channel_nicks, room_id, next_batch, streak, initial,
                    retry>>

(* time.sleep returns; the delay doubles up to the cap; back to "while     *)
(* self.running:".                                                         *)
Wake(t) ==
    /\ pc[t] = "sleep"
    /\ recovery_delay' = [recovery_delay EXCEPT ![t] = Backoff(@, Cap(t))]
    /\ pc' = [pc EXCEPT ![t] = WhileRunning(t)]
    /\ error' = [error EXCEPT ![t] = NoError]
    /\ dest' = [dest EXCEPT ![t] = {}]
    /\ pend' = [pend EXCEPT ![t] = <<>>]
    /\ calls' = [calls EXCEPT ![t] = <<>>]
    /\ last' = [last EXCEPT ![t] = NoLine]
    /\ before' = [before EXCEPT ![t] = <<>>]
    /\ notices' = [notices EXCEPT ![t] = <<>>]
    /\ lost' = [lost EXCEPT ![t] = @ \cup ((taken[t] + 1)..upto[t])]
    /\ UNCHANGED <<head, at, upto, taken, emitted>>
    /\ UNCHANGED <<txn, txns, joined, pure, learned, stale>>
    /\ UNCHANGED <<setup, clients, users, tokens, faults, budget, msgs, running, link, lock,
                   writing, step, lines, jobs, channel_nicks, room_id,
                   next_batch, streak, initial,  retry>>

----------------------------------------------------------------------------
(* _connect of either client (lines 101-108 and 341-353).                  *)

(* Variant: a lifecycle that joins without authenticating.                 *)
AfterConnectSkipsAuth(t) == IF Type(t) = "irc" THEN "join" ELSE "sync"

(* _run: what follows _connect (_auth for IRC, _sync for Matrix).          *)
AfterConnect(t) == IF Type(t) = "irc" THEN "auth" ELSE "sync"

(* Variant: a connect that puts the delay back to the floor.               *)
ConnectedResetsDelay(t) ==
    /\ link' = [link EXCEPT ![t] = "up"]
    /\ recovery_delay' = [recovery_delay EXCEPT ![t] = Floor]

(* _connect returns: the connection (or the access token) is there, and    *)
(* _recovery_delay is not assigned.                                        *)
Connected(t) ==
    /\ link' = [link EXCEPT ![t] = "up"]
    /\ UNCHANGED recovery_delay

ConnectOk(t) ==
    /\ pc[t] = "connect"
    /\ Connected(t)
    /\ pc' = [pc EXCEPT ![t] = AfterConnect(t)]
    /\ step' = [step EXCEPT ![t] = 0]
    /\ learned' = [learned EXCEPT ![t] = {}]
    /\ stale' = [stale EXCEPT ![t] = channel_nicks[t]]
    /\ UNCHANGED <<feed, txn, txns, last, joined, pure, before, notices>>
    /\ UNCHANGED <<setup, clients, users, tokens, faults, budget, msgs, running,
                   lock, writing, lines, jobs, dest, pend, calls, error,
                   channel_nicks, room_id, next_batch, streak, initial, 
                   retry>>

ConnectFail(t) ==
    /\ pc[t] = "connect"
    /\ faults > 0
    /\ budget > 0
    /\ faults' = faults - 1
    /\ budget' = budget - 1
    /\ Raise(t, "transport", t)
    /\ UNCHANGED <<feed, txn, txns, last, record>>
    /\ UNCHANGED <<setup, clients, users, tokens, msgs, running, recovery_delay, link,
                   lock, writing, dest, pend, calls, channel_nicks, room_id,
                   next_batch, initial,  retry>>

----------------------------------------------------------------------------
(* IRCClient: _auth, _join and the PONG reply, each line through           *)
(* _lock_send (lines 110-120, 128, 223-229).                               *)

LockSendEnter(t) ==
    /\ Type(t) = "irc"
    /\ pc[t] \in {"auth", "join", "pong"}
    /\ writing[t] = 0
    /\ Acquire(t, t)
    /\ writing' = [writing EXCEPT ![t] = t]
    /\ UNCHANGED <<feed, txn, txns, last, record>>
    /\ UNCHANGED <<setup, clients, users, tokens, faults, budget, msgs, pc, running,
                   recovery_delay, link, step, lines, jobs, dest, pend, calls,
                   error, channel_nicks, room_id, next_batch, streak, initial,
                    retry>>

(* Variant: a join that keeps the roster a channel already has.            *)
ResetRosterKeeps(nicks, ch) ==
    [c \in DOMAIN nicks \cup {ch} |-> IF c \in DOMAIN nicks THEN nicks[c] ELSE {}]

(* "self._channel_nicks[channel["channel"]] = set()"                       *)
ResetRoster(nicks, ch) ==
    [c \in DOMAIN nicks \cup {ch} |-> IF c = ch THEN {} ELSE nicks[c]]

(* What follows a line that was sent: the next line of _auth, the roster   *)
(* reset and the next channel of _join, or the monitor loop.               *)
AfterLockSend(t) ==
    CASE pc[t] = "auth" ->
            /\ step' = [step EXCEPT ![t] = IF @ + 1 = AuthLines THEN 0 ELSE @ + 1]
            /\ pc' = [pc EXCEPT ![t] =
                        IF step[t] + 1 < AuthLines THEN "auth"
                        ELSE IF Len(clients[t].channels) = 0 THEN AfterLine(t, 0)
                        ELSE "join"]
            /\ UNCHANGED channel_nicks
      [] pc[t] = "join" ->
            /\ channel_nicks' = [channel_nicks EXCEPT ![t] =
                    ResetRoster(@, clients[t].channels[step[t] + 1].channel)]
            /\ step' = [step EXCEPT ![t] =
                          IF @ + 1 = Len(clients[t].channels) THEN 0 ELSE @ + 1]
            /\ pc' = [pc EXCEPT ![t] =
                        IF step[t] + 1 = Len(clients[t].channels)
                        THEN AfterLine(t, 0) ELSE "join"]
      [] OTHER ->
            /\ pc' = [pc EXCEPT ![t] = AfterLine(t, lines[t])]
            /\ UNCHANGED <<step, channel_nicks>>

(* The record starts afresh for a channel when _join has sent its JOIN.    *)
JoinLog(t) ==
    IF CanSend(t) /\ pc[t] = "join"
    THEN LET ch == clients[t].channels[step[t] + 1].channel IN
         /\ joined' = [joined EXCEPT ![t] = {p \in @ : p[1] # ch}]
         /\ pure' = [pure EXCEPT ![t] = @ \cup {ch}]
    ELSE UNCHANGED <<joined, pure>>

LockSendExit(t) ==
    /\ Type(t) = "irc"
    /\ pc[t] \in {"auth", "join", "pong"}
    /\ writing[t] = t
    /\ writing' = [writing EXCEPT ![t] = 0]
    /\ Release(t, t)
    /\ IF CanSend(t)
       THEN /\ AfterLockSend(t)
            /\ UNCHANGED <<error, streak, lines, jobs>>
       ELSE /\ Raise(t, "transport", t)
            /\ UNCHANGED channel_nicks
    /\ JoinLog(t)
    /\ UNCHANGED <<feed, txn, txns, last, learned, stale, before, notices>>
    /\ UNCHANGED <<setup, clients, users, tokens, faults, budget, msgs, running, recovery_delay,
                   link, dest, pend, calls, room_id, next_batch, initial, 
                   retry>>

----------------------------------------------------------------------------
(* The monitor loops: IRCClient._recv / _monitor (lines 122-221) and       *)
(* MatrixClient._monitor / _new_sync (lines 369-395).                      *)

(* self._socket.recv returns: a chunk holding k complete lines, or nothing *)
(* at all from a dead connection (ZeroLengthPayloadError).                 *)
Recv(t) ==
    /\ Type(t) = "irc"
    /\ pc[t] = "recv"
    /\ IF CanSend(t)
       THEN /\ \E k \in 0..Min(msgs, budget) :
                 /\ lines' = [lines EXCEPT ![t] = k]
                 /\ msgs' = msgs - k
                 /\ budget' = budget - k
                 /\ pc' = [pc EXCEPT ![t] = AfterLine(t, k)]
            /\ UNCHANGED <<error, streak, jobs, step>>
       ELSE /\ Raise(t, "transport", t)
            /\ UNCHANGED <<msgs, budget>>
    /\ UNCHANGED <<feed, txn, txns, last, record>>
    /\ UNCHANGED <<setup, clients, users, tokens, faults, running, recovery_delay, link,
                   lock, writing, dest, pend, calls, channel_nicks, room_id,
                   next_batch, initial,  retry>>

(* The dispatch of _monitor on one parsed line.                            *)
Dispatch(t, e) ==
    \/ /\ e.cmd = "PING"
       /\ pc' = [pc EXCEPT ![t] = "pong"]
       /\ lines' = [lines EXCEPT ![t] = @ - 1]
       /\ UNCHANGED <<recovery_delay, step, jobs, dest, pend, calls, error,
                      channel_nicks, streak>>
    \/ /\ e.cmd = "OTHER"
       /\ lines' = [lines EXCEPT ![t] = @ - 1]
       /\ pc' = [pc EXCEPT ![t] = AfterLine(t, lines[t] - 1)]
       /\ UNCHANGED <<recovery_delay, step, jobs, dest, pend, calls,
                      error, channel_nicks, streak>>
    \/ /\ ~Parses(e)
       /\ Raise(t, "parse", t)
       /\ UNCHANGED <<recovery_delay, dest, pend, calls, channel_nicks>>
    \/ /\ e.cmd = "353"
       /\ IF e.chan \in DOMAIN channel_nicks[t]
          THEN /\ channel_nicks' = [channel_nicks EXCEPT
                                      ![t][e.chan] = @ \cup {e.who}]
               /\ lines' = [lines EXCEPT ![t] = @ - 1]
               /\ pc' = [pc EXCEPT ![t] = AfterLine(t, lines[t] - 1)]
               /\ UNCHANGED <<step, jobs, error, streak>>
          ELSE /\ Raise(t, "lookup", t)
               /\ UNCHANGED channel_nicks
       /\ UNCHANGED <<recovery_delay, dest, pend, calls>>
    \/ /\ e.cmd \in {"PRIVMSG", "JOIN", "PART"}
       /\ IF FindChannelConfig(t, e.chan) # {}
          THEN /\ \E b \in FindChannelConfig(t, e.chan) :
                    StartJob(t, Job(b, CASE e.cmd = "JOIN" -> "add"
                                         [] e.cmd = "PART" -> "discard"
                                         [] OTHER -> "none", e.who, ""))
               /\ pc' = [pc EXCEPT ![t] = "route"]
               /\ lines' = [lines EXCEPT ![t] = @ - 1]
               /\ UNCHANGED <<step, jobs, error, streak>>
          ELSE /\ Raise(t, "lookup", t)
               /\ UNCHANGED <<dest, pend, calls, channel_nicks>>
       /\ UNCHANGED recovery_delay
    \/ /\ e.cmd \in {"NICK", "QUIT"}
       /\ LET chs == FindChannelsContainingNick(t, e.who)
              op == IF e.cmd = "NICK" THEN "rename" ELSE "discard"
              js == [i \in 1..Len(chs) |-> Job(chs[i], op, e.who, e.new)]
          IN  IF js = <<>>
              THEN /\ Processed(t)
                   /\ pc' = [pc EXCEPT ![t] = AfterLine(t, lines[t] - 1)]
                   /\ UNCHANGED <<jobs, dest, pend, calls, channel_nicks>>
              ELSE /\ StartJob(t, Head(js))
                   /\ jobs' = [jobs EXCEPT ![t] = Tail(js)]
                   /\ pc' = [pc EXCEPT ![t] = "route"]
                   /\ UNCHANGED <<recovery_delay, streak>>
       /\ lines' = [lines EXCEPT ![t] = @ - 1]
       /\ UNCHANGED <<step, error>>

(* The binding of the first callback a line leads to.                      *)
FirstJob(t, e) ==
    IF e.cmd \in {"NICK", "QUIT"}
    THEN Head(FindChannelsContainingNick(t, e.who))
    ELSE CHOOSE b \in FindChannelConfig(t, e.chan) : TRUE

(* The record of line e: who it names, what it means for the channel's     *)
(* members, the rosters a NICK or PART line finds, and the first callback  *)
(* made.                                                                   *)
Log(t, e) ==
    /\ learned' = [learned EXCEPT ![t] = @ \cup ({e.who, e.new} \ {""})]
    /\ joined' = [joined EXCEPT ![t] =
                     CASE e.cmd = "JOIN" /\ e.chan \in ChannelNames(t) ->
                              @ \cup {<<e.chan, e.who>>}
                       [] e.cmd = "PART" /\ e.chan \in ChannelNames(t) ->
                              @ \ {<<e.chan, e.who>>}
                       [] OTHER -> @]
    /\ pure' = [pure EXCEPT ![t] =
                   CASE e.cmd = "353" -> @ \ {e.chan}
                     [] e.cmd \in {"NICK", "QUIT"} -> {}
                     [] OTHER -> @]
    /\ before' = [before EXCEPT ![t] =
                     IF e.cmd \in {"NICK", "PART"} THEN channel_nicks[t] ELSE <<>>]
    /\ notices' = [notices EXCEPT ![t] =
                      IF pc'[t] = "route" THEN <<FirstJob(t, e)>> ELSE <<>>]

(* One line of the chunk goes through _parse_line and the dispatch.        *)
MonitorLine(t) ==
    /\ Type(t) = "irc"
    /\ pc[t] = "mon"
    /\ lines[t] > 0
    /\ \E e \in IrcLines(t) :
         /\ last' = [last EXCEPT ![t] = e]
         /\ Dispatch(t, e)
         /\ Log(t, e)
    /\ UNCHANGED <<feed, txn, txns, stale>>
    /\ UNCHANGED <<setup, clients, users, tokens, faults, budget, msgs, running, link, lock,
                   writing, room_id, next_batch, initial,  retry>>

----------------------------------------------------------------------------
(* MatrixClient: _sync, _join, _new_sync (lines 355-395, 407-437).         *)

(* Variant: an initial sync that does not store the cursor it is given.    *)
SyncStoreSkipped(t, tok) == UNCHANGED <<next_batch, at>>

(* "self._next_batch = response["next_batch"]" of _sync: the cursor of an  *)
(* initial sync stands for the end of the timeline.                        *)
SyncStore(t, tok) ==
    /\ next_batch' = [next_batch EXCEPT ![t] = tok]
    /\ at' = [at EXCEPT ![t] = head[t]]

Sync(t) ==
    /\ Type(t) = "matrix"
    /\ pc[t] = "sync"
    /\ IF CanSend(t)
       THEN /\ \E tok \in tokens :
                 /\ SyncStore(t, tok)
                 /\ initial' = [initial EXCEPT ![t] = tok]
            /\ pc' = [pc EXCEPT ![t] =
                        IF Len(clients[t].rooms) = 0 THEN AfterLine(t, 0) ELSE "join"]
            /\ UNCHANGED <<error, streak, lines, jobs, step>>
       ELSE /\ Raise(t, "transport", t)
            /\ UNCHANGED <<next_batch, initial, at>>
    /\ UNCHANGED <<head, upto, taken, emitted, lost, txn, txns, last, record>>
    /\ UNCHANGED <<setup, clients, users, tokens, faults, budget, msgs, running, recovery_delay,
                   link, lock, writing, dest, pend, calls, channel_nicks, room_id,
                    retry>>

(* One room of _join: the join call, then room["room_id"] is recorded.     *)
MatrixJoin(t) ==
    /\ Type(t) = "matrix"
    /\ pc[t] = "join"
    /\ IF CanSend(t)
       THEN /\ room_id' = [room_id EXCEPT ![t] = @ \cup {step[t] + 1}]
            /\ step' = [step EXCEPT ![t] =
                          IF @ + 1 = Len(clients[t].rooms) THEN 0 ELSE @ + 1]
            /\ pc' = [pc EXCEPT ![t] =
                        IF step[t] + 1 = Len(clients[t].rooms)
                        THEN AfterLine(t, 0) ELSE "join"]
            /\ UNCHANGED <<error, streak, lines, jobs>>
       ELSE /\ Raise(t, "transport", t)
            /\ UNCHANGED room_id
    /\ UNCHANGED <<feed, txn, txns, last, record>>
    /\ UNCHANGED <<setup, clients, users, tokens, faults, budget, msgs, running, recovery_delay,
                   link, lock, writing, dest, pend, calls, channel_nicks,
                   next_batch, initial,  retry>>

Range(f) == {f[i] : i \in DOMAIN f}

(* What the poll about to be made carries, when it follows a failed poll.  *)
Carried(t) ==
    IF retry[t].held # 0 THEN <<retry[t].held, next_batch[t], initial[t]>> ELSE <<>>

(* Variant: a poll that does not store the cursor of its response.         *)
PollStoreSkipped(t, tok, end) == UNCHANGED <<next_batch, at>>

(* "self._next_batch = response["next_batch"]" of _new_sync, made before   *)
(* the loop over the events: the cursor stands for the end of the response.*)
PollStore(t, tok, end) ==
    /\ next_batch' = [next_batch EXCEPT ![t] = tok]
    /\ at' = [at EXCEPT ![t] = end]

(* _new_sync up to the loop over the events: the long poll carrying the    *)
(* cursor returns a response or fails.  The response holds the events that *)
(* follow the place the cursor stands for: those the timeline held already *)
(* and k new ones; its cursor is stored, then its events are to be read.   *)
Poll(t) ==
    /\ Type(t) = "matrix"
    /\ pc[t] = "recv"
    /\ IF CanSend(t)
       THEN /\ \E k \in 0..Min(msgs, budget) :
                 /\ \E tok \in tokens : PollStore(t, tok, head[t] + k)
                 /\ head' = [head EXCEPT ![t] = @ + k]
                 /\ upto' = [upto EXCEPT ![t] = head[t] + k]
                 /\ lines' = [lines EXCEPT ![t] = head[t] + k - at[t]]
                 /\ msgs' = msgs - k
                 /\ budget' = budget - k
                 /\ pc' = [pc EXCEPT ![t] = AfterLine(t, head[t] + k - at[t])]
            /\ retry' = [retry EXCEPT ![t] = [held |-> 0, since |-> Carried(t)]]
            /\ UNCHANGED <<error, streak, jobs, step>>
       ELSE /\ Raise(t, "poll", t)
            /\ retry' = [retry EXCEPT ![t] =
                           [held |-> next_batch[t], since |-> Carried(t)]]
            /\ UNCHANGED <<next_batch, msgs, budget, head, at, upto>>
    /\ UNCHANGED <<taken, emitted, lost, txn, txns, last, record>>
    /\ UNCHANGED <<setup, clients, users, tokens, faults, running, recovery_delay, link,
                   lock, writing, dest, pend, calls, channel_nicks, room_id,
                   initial>>

(* _read_room_messages and the loop of _new_sync on one timeline event.    *)
ReadEvent(t, e) ==
    \/ /\ Filtered(t, e)
       /\ lines' = [lines EXCEPT ![t] = @ - 1]
       /\ pc' = [pc EXCEPT ![t] = AfterLine(t, lines[t] - 1)]
       /\ UNCHANGED <<step, jobs, dest, pend, calls, error, streak>>
    \/ /\ ~Filtered(t, e)
       /\ IF ~CanSend(t)
          THEN /\ Raise(t, "transport", t)
               /\ UNCHANGED <<dest, pend, calls>>
          ELSE IF e.kind = "member_other"
          THEN /\ Raise(t, "shape", t)
               /\ UNCHANGED <<dest, pend, calls>>
          ELSE /\ StartRoute(t, clients[t].rooms[e.room].to)
               /\ pc' = [pc EXCEPT ![t] = "route"]
               /\ lines' = [lines EXCEPT ![t] = @ - 1]
               /\ UNCHANGED <<step, jobs, error, streak>>

(* The place in the timeline of the event the loop of _new_sync is at.     *)
Place(t) == upto[t] - lines[t] + 1

(* One event of the response: _read_room_messages filters it, looks up the *)
(* sender's display name, and _new_sync hands it to the callback.          *)
MonitorEvent(t) ==
    /\ Type(t) = "matrix"
    /\ pc[t] = "mon"
    /\ lines[t] > 0
    /\ \E e \in MatrixEvents(t) :
         /\ last' = [last EXCEPT ![t] = e]
         /\ ReadEvent(t, e)
    /\ taken' = [taken EXCEPT ![t] = Place(t)]
    /\ emitted' = [emitted EXCEPT ![t] =
                      IF pc'[t] = "route" THEN Append(@, Place(t)) ELSE @]
    /\ UNCHANGED <<head, at, upto, lost, txn, txns, record>>
    /\ UNCHANGED <<setup, clients, users, tokens, faults, budget, msgs, running, recovery_delay,
                   link, lock, writing, channel_nicks, room_id, next_batch, initial,
                    retry>>

----------------------------------------------------------------------------
(* The router: create_clients.callback and forward_message of either       *)
(* client (lines 478-480, 244-248, 461-468), with the send of one binding: *)
(* IRCClient._send_message (234-242) or MatrixClient._send (439-453).      *)

(* Variant: a forward that writes without taking the lock.                 *)
SendMessageUnlocked(t, c) == UNCHANGED lock

(* "with self._lock:" of _send_message and of _send.                       *)
SendMessage(t, c) == Acquire(t, c)

(* Variant: a send that leaves the counter where it is.                    *)
NextTxnStuck(n) == n

(* "self._txn += 1", made under the lock before the request is sent.       *)
NextTxn(n) == n + 1

(* _send on client c: the URL is built with _txn and _txn is incremented,  *)
(* both under the lock and before the request.  IRC sends have no counter. *)
UseTxn(c) ==
    IF Type(c) = "matrix"
    THEN /\ txns' = [txns EXCEPT ![c] = Append(@, txn[c])]
         /\ txn' = [txn EXCEPT ![c] = NextTxn(@)]
    ELSE UNCHANGED <<txn, txns>>

(* The callback reaches its next binding and calls the client's send; the  *)
(* send takes the client's lock and starts writing.  A Matrix room whose   *)
(* room_id was never recorded fails before any send is called.             *)
FwdEnter(t) ==
    /\ pc[t] = "route"
    /\ pend[t] # <<>>
    /\ writing[t] = 0
    /\ LET c == Head(pend[t])[1]
           b == Head(pend[t])[2]
       IN  IF Type(c) = "matrix" /\ b \notin room_id[c]
           THEN /\ Raise(t, "forward", c)
                /\ UNCHANGED <<lock, writing, calls, txn, txns>>
           ELSE /\ SendMessage(t, c)
                /\ UseTxn(c)
                /\ writing' = [writing EXCEPT ![t] = c]
                /\ calls' = [calls EXCEPT ![t] = Append(@, Head(pend[t]))]
                /\ UNCHANGED <<pc, error, streak, lines, jobs, step>>
    /\ UNCHANGED <<feed, last, record>>
    /\ UNCHANGED <<setup, clients, users, tokens, faults, budget, msgs, running, recovery_delay,
                   link, dest, pend, channel_nicks, room_id, next_batch, initial,
                    retry>>

(* The send ends: the lock is released; the write went through, or it      *)
(* raised and the exception leaves the callback and the caller's _monitor. *)
FwdExit(t) ==
    /\ pc[t] = "route"
    /\ writing[t] # 0
    /\ writing' = [writing EXCEPT ![t] = 0]
    /\ Release(t, writing[t])
    /\ IF CanSend(writing[t])
       THEN /\ pend' = [pend EXCEPT ![t] = Tail(@)]
            /\ UNCHANGED <<pc, error, streak, lines, jobs, step>>
       ELSE /\ Raise(t, "forward", writing[t])
            /\ UNCHANGED pend
    /\ UNCHANGED <<feed, txn, txns, last, record>>
    /\ UNCHANGED <<setup, clients, users, tokens, faults, budget, msgs, running, recovery_delay,
                   link, dest, calls, channel_nicks, room_id, next_batch, initial,
                    retry>>

(* The callback returns: the next channel of a NICK / QUIT loop, or the    *)
(* message is processed and the delay goes back to the floor.              *)
RouteReturn(t) ==
    /\ pc[t] = "route"
    /\ pend[t] = <<>>
    /\ writing[t] = 0
    /\ IF jobs[t] # <<>>
       THEN /\ StartJob(t, Head(jobs[t]))
            /\ jobs' = [jobs EXCEPT ![t] = Tail(@)]
            /\ notices' = [notices EXCEPT ![t] = Append(@, Head(jobs[t]).b)]
            /\ UNCHANGED <<pc, recovery_delay, streak>>
       ELSE /\ Processed(t)
            /\ pc' = [pc EXCEPT ![t] = AfterLine(t, lines[t])]
            /\ dest' = [dest EXCEPT ![t] = {}]
            /\ calls' = [calls EXCEPT ![t] = <<>>]
            /\ UNCHANGED <<jobs, pend, channel_nicks, notices>>
    /\ UNCHANGED <<feed, txn, txns, last, joined, pure, learned, stale, before>>
    /\ UNCHANGED <<setup, clients, users, tokens, faults, budget, msgs, running, link, lock,
                   writing, step, lines, error, room_id, next_batch, initial,
                    retry>>

----------------------------------------------------------------------------
(* The environment. *)

(* Somebody clears client.running.                                         *)
Stop(t) ==
    /\ running[t]
    /\ running' = [running EXCEPT ![t] = FALSE]
    /\ UNCHANGED <<feed, txn, txns, last, record>>
    /\ UNCHANGED <<setup, clients, users, tokens, faults, budget, msgs, pc, recovery_delay,
                   link, lock, writing, step, lines, jobs, dest, pend, calls,
                   error, channel_nicks, room_id, next_batch, streak, initial,
                    retry>>

(* The network drops the connection (the server stops answering).          *)
Drop(t) ==
    /\ link[t] = "up"
    /\ faults > 0
    /\ budget > 0
    /\ faults' = faults - 1
    /\ budget' = budget - 1
    /\ link' = [link EXCEPT ![t] = "down"]
    /\ UNCHANGED <<feed, txn, txns, last, record>>
    /\ UNCHANGED <<setup, clients, users, tokens, msgs, pc, running, recovery_delay,
                   lock, writing, step, lines, jobs, dest, pend, calls, error,
                   channel_nicks, room_id, next_batch, streak, initial, 
                   retry>>

----------------------------------------------------------------------------
(* Specifications. *)

(* Characters of a message that holds no line break; NUL is "\0".          *)
Chars == {"a", "b", "NUL"}

Bodies == UNION {[1..n -> Chars] : n \in 0..MaxBody}

(* Prefix lengths: none, a short one, and those that leave 1..MaxSize      *)
(* characters of each line to the message.                                 *)
Prefixes == {0, 5} \cup {LineLimit - k : k \in 1..MaxSize}

(* message.replace("\0", " ")                                              *)
Sanitize(message) ==
    [i \in 1..Len(message) |-> IF message[i] = "NUL" THEN " " ELSE message[i]]

(* message.splitlines() of a message that holds no line break.             *)
SplitLines(message) == IF message = <<>> THEN <<>> ELSE <<message>>

(* Variant: slices one character too long.                                 *)
ChunksTooLong(line, size) ==
    [k \in 1..((Len(line) + size) \div (size + 1)) |->
        SubSeq(line, (k - 1) * (size + 1) + 1, Min(k * (size + 1), Len(line)))]

(* [line[i : i + size] for i in range(0, len(line), size)]                 *)
Chunks(line, size) ==
    [k \in 1..((Len(line) + size - 1) \div size) |->
        SubSeq(line, (k - 1) * size + 1, Min(k * size, Len(line)))]

RECURSIVE Concat(_)
Concat(seqs) == IF seqs = <<>> THEN <<>> ELSE Head(seqs) \o Concat(Tail(seqs))

(* IRCClient._send_message(recipient, prefix, message): what it writes,    *)
(* one wire message (prefix and chunk) per chunk of every line.            *)
Written(p, message) ==
    LET size == LineLimit - p
        per_line == [i \in 1..Len(SplitLines(Sanitize(message))) |->
                        Chunks(SplitLines(Sanitize(message))[i], size)]
    IN  [k \in 1..Len(Concat(per_line)) |->
            [prefix |-> p, chunk |-> Concat(per_line)[k]]]

(* _send_message is called once on a connection that takes every write.    *)
SendChunks ==
    /\ wire = <<>>
    /\ wire' = Written(prefix, body)
    /\ UNCHANGED <<clients_config, created, prefix, body, clients, users, tokens,
                   faults, msgs, budget, pc, running, recovery_delay, link, lock,
                   writing, step, lines, jobs, dest, pend, calls, error,
                   channel_nicks, room_id, next_batch, streak, initial, retry,
                   txn, txns, last, record, feed>>

(* create_clients from entry i on, with acc the clients list so far: an    *)
(* entry of a known type is appended, any other only warned about; then    *)
(* "Created client" is logged with clients[-1], which raises IndexError    *)
(* when the list is still empty.                                           *)
RECURSIVE Build(_, _, _)
Build(cfg, i, acc) ==
    IF i > Len(cfg) THEN [ok |-> TRUE, clients |-> acc]
    ELSE LET made == IF cfg[i].type \in {"irc", "matrix"}
                     THEN Append(acc, cfg[i]) ELSE acc
         IN  IF made = <<>> THEN [ok |-> FALSE, clients |-> made]
             ELSE Build(cfg, i + 1, made)

CreateClients(cfg) == Build(cfg, 1, <<>>)

(* main calls create_clients: it returns the list (each client as its      *)
(* __init__ leaves it) or raises.                                          *)
Create ==
    /\ created = "no"
    /\ LET r == CreateClients(clients_config) IN
         /\ created' = IF r.ok THEN "yes" ELSE "failed"
         /\ clients' = IF r.ok THEN r.clients ELSE <<>>
    /\ pc' = [t \in DOMAIN clients' |-> "loop"]
    /\ running' = [t \in DOMAIN clients' |-> TRUE]
    /\ recovery_delay' = [t \in DOMAIN clients' |-> 1]
    /\ link' = [t \in DOMAIN clients' |-> "none"]
    /\ lock' = [t \in DOMAIN clients' |-> 0]
    /\ writing' = [t \in DOMAIN clients' |-> 0]
    /\ step' = [t \in DOMAIN clients' |-> 0]
    /\ lines' = [t \in DOMAIN clients' |-> 0]
    /\ jobs' = [t \in DOMAIN clients' |-> <<>>]
    /\ dest' = [t \in DOMAIN clients' |-> {}]
    /\ pend' = [t \in DOMAIN clients' |-> <<>>]
    /\ calls' = [t \in DOMAIN clients' |-> <<>>]
    /\ error' = [t \in DOMAIN clients' |-> NoError]
    /\ channel_nicks' = [t \in DOMAIN clients' |-> <<>>]
    /\ room_id' = [t \in DOMAIN clients' |-> {}]
    /\ next_batch' = [t \in DOMAIN clients' |-> 0]
    /\ streak' = [t \in DOMAIN clients' |-> 0]
    /\ initial' = [t \in DOMAIN clients' |-> 0]
    /\ retry' = [t \in DOMAIN clients' |-> [held |-> 0, since |-> <<>>]]
    /\ txn' = [t \in DOMAIN clients' |-> 0]
    /\ txns' = [t \in DOMAIN clients' |-> <<>>]
    /\ last' = [t \in DOMAIN clients' |-> NoLine]
    /\ joined' = [t \in DOMAIN clients' |-> {}]
    /\ pure' = [t \in DOMAIN clients' |-> {}]
    /\ learned' = [t \in DOMAIN clients' |-> {}]
    /\ stale' = [t \in DOMAIN clients' |-> <<>>]
    /\ before' = [t \in DOMAIN clients' |-> <<>>]
    /\ notices' = [t \in DOMAIN clients' |-> <<>>]
    /\ head' = [t \in DOMAIN clients' |-> 0]
    /\ at' = [t \in DOMAIN clients' |-> 0]
    /\ upto' = [t \in DOMAIN clients' |-> 0]
    /\ taken' = [t \in DOMAIN clients' |-> 0]
    /\ emitted' = [t \in DOMAIN clients' |-> <<>>]
    /\ lost' = [t \in DOMAIN clients' |-> {}]
    /\ UNCHANGED <<clients_config, prefix, body, wire, users, tokens, faults, msgs,
                   budget>>

(* The clients as create_clients leaves them, and the networks around.     *)
Started(cfg, us, toks, f, m, n) ==
    /\ clients = cfg
    /\ users = us
    /\ tokens = toks
    /\ faults = f
    /\ msgs = m
    /\ budget = n
    /\ pc = [t \in DOMAIN cfg |-> "loop"]
    /\ running = [t \in DOMAIN cfg |-> TRUE]
    /\ recovery_delay = [t \in DOMAIN cfg |-> 1]
    /\ link = [t \in DOMAIN cfg |-> "none"]
    /\ lock = [t \in DOMAIN cfg |-> 0]
    /\ writing = [t \in DOMAIN cfg |-> 0]
    /\ step = [t \in DOMAIN cfg |-> 0]
    /\ lines = [t \in DOMAIN cfg |-> 0]
    /\ jobs = [t \in DOMAIN cfg |-> <<>>]
    /\ dest = [t \in DOMAIN cfg |-> {}]
    /\ pend = [t \in DOMAIN cfg |-> <<>>]
    /\ calls = [t \in DOMAIN cfg |-> <<>>]
    /\ error = [t \in DOMAIN cfg |-> NoError]
    /\ channel_nicks = [t \in DOMAIN cfg |-> <<>>]
    /\ room_id = [t \in DOMAIN cfg |-> {}]
    /\ next_batch = [t \in DOMAIN cfg |-> 0]
    /\ streak = [t \in DOMAIN cfg |-> 0]
    /\ initial = [t \in DOMAIN cfg |-> 0]
    /\ retry = [t \in DOMAIN cfg |-> [held |-> 0, since |-> <<>>]]
    /\ txn = [t \in DOMAIN cfg |-> 0]
    /\ txns = [t \in DOMAIN cfg |-> <<>>]
    /\ last = [t \in DOMAIN cfg |-> NoLine]
    /\ joined = [t \in DOMAIN cfg |-> {}]
    /\ pure = [t \in DOMAIN cfg |-> {}]
    /\ learned = [t \in DOMAIN cfg |-> {}]
    /\ stale = [t \in DOMAIN cfg |-> <<>>]
    /\ before = [t \in DOMAIN cfg |-> <<>>]
    /\ notices = [t \in DOMAIN cfg |-> <<>>]
    /\ head = [t \in DOMAIN cfg |-> 0]
    /\ at = [t \in DOMAIN cfg |-> 0]
    /\ upto = [t \in DOMAIN cfg |-> 0]
    /\ taken = [t \in DOMAIN cfg |-> 0]
    /\ emitted = [t \in DOMAIN cfg |-> <<>>]
    /\ lost = [t \in DOMAIN cfg |-> {}]

(* The state after create_clients and the start of every thread.           *)
InitWith(cfg, us, toks, f, m, n) ==
    /\ clients_config = cfg
    /\ created = "yes"
    /\ prefix = 0
    /\ body = <<>>
    /\ wire = <<>>
    /\ Started(cfg, us, toks, f, m, n)

(* A call of _send_message with any prefix and any one-line message.       *)
ChunkInit ==
    /\ clients_config = <<>>
    /\ created = "yes"
    /\ prefix \in Prefixes
    /\ body \in Bodies
    /\ wire = <<>>
    /\ Started(<<>>, {}, {}, 0, 0, 0)

(* main before create_clients, with any configuration.                     *)
CreateInit ==
    /\ clients_config \in Configs
    /\ created = "no"
    /\ prefix = 0
    /\ body = <<>>
    /\ wire = <<>>
    /\ Started(<<>>, {}, {}, 0, 0, 0)

Init == InitWith(Bridge, {"alice"}, {1}, MaxEvents, MaxEvents, MaxEvents)

SoloInit ==
    \E cfg \in {SoloIrc, SoloMatrix} :
        InitWith(cfg, {"alice"}, 1..MaxBatch, SoloFaults, SoloMsgs,
                 SoloFaults + SoloMsgs)

PairInit == InitWith(Pair, {"alice"}, {1}, PairEvents, PairEvents, PairEvents)

PollInit ==
    InitWith(SoloMatrix, {"alice"}, {1}, PollFaults, PollEvents, PollFaults + PollEvents)

RelayInit == InitWith(Relay, {"alice"}, {1}, RelayEvents, RelayEvents, RelayEvents)

RosterInit ==
    InitWith(Trio, {"alice", "bob"}, {1}, RosterFaults, RosterEvents, RosterEvents)

(* The bridge as main runs it: nothing ever clears a running flag.         *)
Next ==
    \/ \E t \in Idx : LoopTest(t)
    \/ \E t \in Idx : Wake(t)
    \/ \E t \in Idx : ConnectOk(t)
    \/ \E t \in Idx : ConnectFail(t)
    \/ \E t \in Idx : LockSendEnter(t)
    \/ \E t \in Idx : LockSendExit(t)
    \/ \E t \in Idx : Recv(t)
    \/ \E t \in Idx : MonitorLine(t)
    \/ \E t \in Idx : Sync(t)
    \/ \E t \in Idx : MatrixJoin(t)
    \/ \E t \in Idx : Poll(t)
    \/ \E t \in Idx : MonitorEvent(t)
    \/ \E t \in Idx : FwdEnter(t)
    \/ \E t \in Idx : FwdExit(t)
    \/ \E t \in Idx : RouteReturn(t)
    \/ \E t \in Idx : Drop(t)

(* The same with clients that are told to stop.                            *)
NextStop ==
    \/ Next
    \/ \E t \in Idx : Stop(t)

Spec == Init /\ [][Next]_vars

SpecSolo == SoloInit /\ [][NextStop]_vars

SpecRelay == RelayInit /\ [][Next]_vars

SpecCreate == CreateInit /\ [][Create]_vars

SpecChunk == ChunkInit /\ [][SendChunks]_vars

(* A bridge of IRC clients only.                                           *)
NextIrc ==
    \/ \E t \in Idx : LoopTest(t)
    \/ \E t \in Idx : Wake(t)
    \/ \E t \in Idx : ConnectOk(t)
    \/ \E t \in Idx : ConnectFail(t)
    \/ \E t \in Idx : LockSendEnter(t)
    \/ \E t \in Idx : LockSendExit(t)
    \/ \E t \in Idx : Recv(t)
    \/ \E t \in Idx : MonitorLine(t)
    \/ \E t \in Idx : FwdEnter(t)
    \/ \E t \in Idx : FwdExit(t)
    \/ \E t \in Idx : RouteReturn(t)
    \/ \E t \in Idx : Drop(t)

SpecRoster == RosterInit /\ [][NextIrc]_vars

(* The steps of the Matrix clients alone.                                  *)
NextMatrix ==
    \/ \E t \in Idx : LoopTest(t)
    \/ \E t \in Idx : Wake(t)
    \/ \E t \in Idx : ConnectOk(t)
    \/ \E t \in Idx : ConnectFail(t)
    \/ \E t \in Idx : Sync(t)
    \/ \E t \in Idx : MatrixJoin(t)
    \/ \E t \in Idx : Poll(t)
    \/ \E t \in Idx : MonitorEvent(t)
    \/ \E t \in Idx : FwdEnter(t)
    \/ \E t \in Idx : FwdExit(t)
    \/ \E t \in Idx : RouteReturn(t)
    \/ \E t \in Idx : Drop(t)

SpecPoll == PollInit /\ [][NextMatrix]_vars

(* The threads take steps: each thread that can move eventually does, and  *)
(* a blocking call that can return eventually returns.                     *)
Thread(t) ==
    \/ LoopTest(t) \/ Wake(t) \/ ConnectOk(t) \/ ConnectFail(t)
    \/ LockSendEnter(t) \/ LockSendExit(t) \/ Recv(t) \/ MonitorLine(t)
    \/ Sync(t) \/ MatrixJoin(t) \/ Poll(t) \/ MonitorEvent(t)
    \/ FwdEnter(t) \/ FwdExit(t) \/ RouteReturn(t)

SpecStop ==
    /\ PairInit
    /\ [][NextStop]_vars
    /\ \A t \in DOMAIN Pair : WF_vars(Thread(t))

----------------------------------------------------------------------------
(* Vocabulary of the properties. *)

Count(seq, x) == Cardinality({i \in DOMAIN seq : seq[i] = x})

(* The callback of thread t is over: about to return, or left by the       *)
(* exception of a send.                                                    *)
RouteOver(t) ==
    \/ pc[t] = "route" /\ pend[t] = <<>> /\ writing[t] = 0
    \/ error[t].kind = "forward"

(* Binding b of client c can be written to.                                *)
Healthy(c, b) == CanSend(c) /\ (Type(c) = "matrix" => b \in room_id[c])

(* The states of the socket adapter's lifecycle.                           *)
State(p) ==
    CASE p = "connect" -> "Connecting"
      [] p = "auth" -> "Authenticating"
      [] p = "join" -> "Joining"
      [] p \in {"mon", "recv", "pong", "route"} -> "Monitoring"
      [] OTHER -> "Disconnected"

Lifecycle ==
    {<<"Disconnected", "Connecting">>, <<"Connecting", "Authenticating">>,
     <<"Authenticating", "Joining">>, <<"Joining", "Monitoring">>,
     <<"Connecting", "Disconnected">>, <<"Authenticating", "Disconnected">>,
     <<"Joining", "Disconnected">>, <<"Monitoring", "Disconnected">>}

----------------------------------------------------------------------------
(* C1: adapters are independent failure domains.  A thread's lifecycle is  *)
(* never ended by the error of another adapter's send, and when its        *)
(* callback is over every matching binding of a healthy adapter has been   *)
(* forwarded to.                                                           *)
C1_IndependentFailureDomains ==
    \A t \in Idx :
        /\ ~(error[t].kind = "forward" /\ error[t].by # t)
        /\ RouteOver(t) =>
              \A tg \in Range(Targets(dest[t])) :
                  Healthy(tg[1], tg[2]) => tg \in Range(calls[t])

(* C2: when a callback is over, every binding whose label is among the     *)
(* destination labels has received exactly one forward call and every      *)
(* other binding none; with no matching binding no error is raised.        *)
C2_ExactlyOneForward ==
    \A t \in Idx :
        RouteOver(t) =>
            /\ \A c \in Idx : \A b \in DOMAIN Bindings(c) :
                 Count(calls[t], <<c, b>>) =
                     IF Bindings(c)[b].label \in dest[t] THEN 1 ELSE 0
            /\ Targets(dest[t]) = <<>> => error[t].kind = "none"

(* C3: a line naming a channel that is not among the adapter's bindings is *)
(* skipped; it never ends the lifecycle.                                   *)
C3_UnknownChannelSkipped ==
    \A t \in Idx : error[t].kind # "lookup"

(* C4 as stated: the first poll made after a failed poll carries the       *)
(* cursor that was held when the poll failed.                              *)
C4_FailedPollCursorReused ==
    \A t \in Idx :
        retry[t].since # <<>> => retry[t].since[2] = retry[t].since[1]

(* C4 as amended: a failed poll leaves the cursor as it was, and the first *)
(* poll made after a failed poll carries the cursor stored by the initial  *)
(* sync of the lifecycle it belongs to.                                    *)
C4_CursorAfterFailedPoll ==
    \A t \in Idx :
        /\ error[t].kind = "poll" => next_batch[t] = retry[t].held
        /\ retry[t].since # <<>> => retry[t].since[2] = retry[t].since[3]

C4_Witness ==
    \E t \in Idx :
        /\ retry[t].since # <<>>
        /\ retry[t].since[2] # retry[t].since[1]
        /\ pc[t] = "mon"

(* C5: the recovery delay of every adapter is at least the floor and at    *)
(* most the cap of its protocol.                                           *)
C5_DelayWithinBounds ==
    \A t \in Idx : Floor <= recovery_delay[t] /\ recovery_delay[t] <= Cap(t)

C5_Witness ==
    \E t \in Idx : Type(t) = "irc" /\ pc[t] = "sleep" /\ recovery_delay[t] = IrcCap

(* C6: the k-th sleep in a row with no message processed in between lasts  *)
(* min(2^(k-1), cap) seconds: 1, 2, 4, 8, 16, ...; in particular the first *)
(* failure after a processed message sleeps 1 second.                      *)
C6_BackoffSequence ==
    \A t \in Idx :
        pc[t] = "sleep" =>
            recovery_delay[t] = Min(Pow2(streak[t] - 1), Cap(t))

C6_Witness ==
    \E t \in Idx :
        /\ pc[t] = "sleep"
        /\ streak[t] = 1
        /\ recovery_delay[t] = 1
        /\ faults + 5 < SoloFaults

(* C7: once running is false the supervisor starts no lifecycle: no step   *)
(* takes the thread into _connect.                                         *)
C7_NoRestartAfterStop ==
    [][\A t \in Idx :
          ~running[t] => (pc'[t] = "connect" => pc[t] = "connect")]_vars

C7_Witness ==
    \E t \in Idx : ~running[t] /\ pc[t] = "sleep"

(* C8: clearing running does not interrupt the call the thread is blocked  *)
(* in, and once running is false the thread ends: run returns.             *)
C8_StopsAfterPendingCall ==
    /\ [][\A t \in Idx : (running[t] /\ ~running'[t]) => pc'[t] = pc[t]]_vars
    /\ \A t \in DOMAIN Pair : (~running[t]) ~> (pc[t] = "done")

C8_Witness ==
    \E t \in Idx : ~running[t] /\ pc[t] = "recv"

(* C9: the socket adapter moves Connecting, Authenticating, Joining,       *)
(* Monitoring in that order, from any of them to Disconnected, and from    *)
(* Disconnected only to Connecting; a failure puts the supervisor to       *)
(* sleep; within a step no line already sent is sent again.                *)
C9_LifecycleOrder ==
    [][\A t \in Idx :
          Type(t) = "irc" =>
              /\ \/ State(pc'[t]) = State(pc[t])
                 \/ <<State(pc[t]), State(pc'[t])>> \in Lifecycle
              /\ (error'[t] # error[t] /\ error'[t] # NoError) => pc'[t] = "sleep"
              /\ (pc[t] = pc'[t] /\ pc[t] \in {"auth", "join"}) => step'[t] >= step[t]
      ]_vars

C9_Witness ==
    \E t \in Idx : Type(t) = "irc" /\ pc[t] = "recv" /\ recovery_delay[t] > 1

(* C10: at most one thread at a time is inside the send section of a       *)
(* socket adapter's connection, and it is the holder of the adapter's lock.*)
C10_SendsMutuallyExclusive ==
    \A c \in Idx :
        Type(c) = "irc" =>
            /\ Cardinality({t \in Idx : writing[t] = c}) <= 1
            /\ \A t \in Idx : writing[t] = c => lock[c] = t

C10_Witness ==
    \E c \in Idx : \E t \in Idx :
        /\ Type(c) = "irc"
        /\ t # c
        /\ writing[t] = c
        /\ pc[c] \in {"auth", "join", "pong"}
        /\ writing[c] = 0

(* C11: the transaction identifiers used by the sends of a Matrix client   *)
(* are strictly increasing in the order of the sends, failed sends and     *)
(* sends after a reconnect included, whichever threads asked for them; and *)
(* the counter is above every identifier used so far.                      *)
C11_TxnStrictlyIncreasing ==
    \A c \in Idx :
        /\ \A i \in DOMAIN txns[c] : \A j \in DOMAIN txns[c] :
               i < j => txns[c][i] < txns[c][j]
        /\ \A i \in DOMAIN txns[c] : txns[c][i] < txn[c]

(* Two threads have each sent on the same Matrix client.                   *)
C11_Witness ==
    \E c \in Idx :
        /\ Type(c) = "matrix"
        /\ Len(txns[c]) >= 2
        /\ \E t1 \in Idx : \E t2 \in Idx \ {t1} :
               /\ \E b \in DOMAIN Bindings(c) : <<c, b>> \in Range(calls[t1])
               /\ \E b \in DOMAIN Bindings(c) : <<c, b>> \in Range(calls[t2])

(* C12: a malformed line (empty, or a prefix with no command) taken by the *)
(* monitor loop is skipped: the thread stays in Monitoring and no error    *)
(* ends its lifecycle.                                                     *)
C12_MalformedLineSkipped ==
    \A t \in Idx :
        (Type(t) = "irc" /\ last[t].cmd \in {"EMPTY", "PREFIX"}) =>
            State(pc[t]) = "Monitoring" /\ error[t] = NoError

(* C13: create_clients never fails, and it returns one client for every   *)
(* entry of a known type, in order, whatever the position of the entries   *)
(* of unknown type.                                                        *)
C13_UnknownTypeSkipped ==
    created # "no" =>
        /\ created = "yes"
        /\ clients = SelectSeq(clients_config,
                               LAMBDA e : e.type \in {"irc", "matrix"})

(* The monitor loop of thread t is through with the line it took last.     *)
LineDone(t) == pc[t] \in {"mon", "recv", "done"}

Payload == [k \in 1..Len(wire) |-> wire[k].chunk]

EventRead(t) ==
    /\ Type(t) = "matrix"
    /\ pc[t] = "mon"
    /\ lines[t] > 0
    /\ <<pc'[t], lines'[t]>> # <<pc[t], lines[t]>>

(* An event whose sender is the client's own username starts no route      *)
(* call, whatever its type.                                                *)
OwnSenderNeverRouted ==
    [][\A t \in Idx :
          EventRead(t) /\ last'[t].own =>
              pc'[t] # "route" /\ UNCHANGED <<dest, pend, calls>>]_vars

(* C16 as stated: while the server answers, a message or membership event  *)
(* of the client's own sender starts no route call, and every message or   *)
(* membership event of another sender in a configured room starts one, to  *)
(* the room's destinations.                                                *)
C16_OwnFilteredOthersRouted ==
    [][\A t \in Idx :
          EventRead(t) /\ CanSend(t) /\ last'[t].kind # "other" =>
              IF last'[t].own
              THEN pc'[t] # "route" /\ UNCHANGED <<dest, pend, calls>>
              ELSE /\ pc'[t] = "route"
                   /\ dest'[t] = clients[t].rooms[last'[t].room].to]_vars

(* C17: for every channel of an IRC client that has seen only JOIN and     *)
(* PART lines (and lines on other channels) since _join reset its roster,  *)
(* the roster is exactly the set of nicks whose latest line on the channel *)
(* was a JOIN.                                                             *)
C17_RosterIsLatestJoins ==
    \A t \in Idx :
        Type(t) = "irc" =>
            \A ch \in pure[t] :
                /\ ch \in DOMAIN channel_nicks[t]
                /\ channel_nicks[t][ch] = {u \in users : <<ch, u>> \in joined[t]}

(* join(alice), join(bob), part(alice) on one channel leave exactly bob.   *)
C17_Witness ==
    \E t \in Idx :
        /\ Type(t) = "irc"
        /\ last[t].cmd = "PART" /\ last[t].who = "alice"
        /\ last[t].chan \in pure[t]
        /\ before[t][last[t].chan] = {"alice", "bob"}
        /\ channel_nicks[t][last[t].chan] = {"bob"}
        /\ LineDone(t)

(* The line or event e is one _monitor or _new_sync forwards.              *)
IsMessage(t, e) ==
    IF Type(t) = "irc"
    THEN e.cmd \in {"PRIVMSG", "JOIN", "PART", "NICK", "QUIT"}
    ELSE e.kind \in {"message", "member"}

(* Thread t's step ends the processing of a message: its callback returns  *)
(* to the monitor, or a NICK / QUIT line turns out to concern no channel.  *)
MessageProcessed(t) ==
    /\ pc'[t] \in {"mon", "recv", "done"}
    /\ \/ pc[t] = "route" /\ IsMessage(t, last[t])
       \/ pc[t] = "mon" /\ Type(t) = "irc" /\ last'[t].cmd \in {"NICK", "QUIT"}

(* C18: the recovery delay of a client changes only when its sleep ends    *)
(* (it grows) and when a message has been processed (it becomes 1): no     *)
(* step of connect, authenticate, sync or join, no PING, no 353 reply and  *)
(* no other line changes it.                                               *)
C18_DelayResetOnlyByMessage ==
    [][\A t \in Idx :
          recovery_delay'[t] # recovery_delay[t] =>
              \/ pc[t] = "sleep" /\ recovery_delay'[t] > recovery_delay[t]
              \/ MessageProcessed(t) /\ recovery_delay'[t] = Floor]_vars

(* After a failure the client is back in its monitor loop, has answered a  *)
(* PING or read a 353 reply, and its delay is still above the floor.       *)
C18_Witness ==
    \E t \in Idx :
        /\ Type(t) = "irc"
        /\ recovery_delay[t] > Floor
        /\ last[t].cmd \in {"PING", "353"}
        /\ pc[t] \in {"mon", "recv"}

(* Thread t is past _join on its current connection.                       *)
Joined(t) == pc[t] \in {"mon", "recv", "pong", "route"}

(* C19: on the step that completes _join every configured channel of an    *)
(* IRC client has an empty roster, and from then on, while the connection  *)
(* is monitored, a roster holds only nicks named by lines of that          *)
(* connection.                                                             *)
C19_RostersRebuiltAfterReconnect ==
    [][\A t \in Idx :
          Type(t) = "irc" =>
              /\ (pc[t] = "join" /\ pc'[t] \notin {"join", "sleep"}) =>
                     \A ch \in ChannelNames(t) : channel_nicks'[t][ch] = {}
              /\ Joined(t)' =>
                     \A ch \in ChannelNames(t) :
                         channel_nicks'[t][ch] \subseteq learned'[t]]_vars

(* A connection that ended with alice in a roster was replaced by one on   *)
(* which the roster holds bob alone, the only nick its lines have named.   *)
C19_Witness ==
    \E t \in Idx :
        /\ Type(t) = "irc"
        /\ pc[t] \in {"mon", "recv"}
        /\ learned[t] = {"bob"}
        /\ \E ch \in DOMAIN stale[t] :
               /\ stale[t][ch] = {"alice"}
               /\ channel_nicks[t][ch] = {"bob"}

(* C20: a thread holds at most one send lock; it holds one only while it   *)
(* is inside the send that took it (a forward to that client, or a line of *)
(* its own through _lock_send), which ends without taking another; so a    *)
(* thread that is about to take a lock, or is in the callback between two  *)
(* forwards, or is back in its monitor loop, holds none, and no thread     *)
(* that holds a lock waits for another.                                    *)
C20_NoNestedLocks ==
    \A t \in Idx :
        /\ Cardinality({c \in Idx : lock[c] = t}) <= 1
        /\ \A c \in Idx :
               lock[c] = t =>
                   /\ writing[t] = c
                   /\ pc[t] \in {"route", "auth", "join", "pong"}
        /\ writing[t] = 0 => \A c \in Idx : lock[c] # t

(* Two clients forward to each other at the same time, each holding the    *)
(* other's lock.                                                           *)
C20_Witness ==
    \E t, u \in Idx :
        /\ t # u
        /\ pc[t] = "route" /\ pc[u] = "route"
        /\ lock[u] = t
        /\ lock[t] = u

(* C21: while a Matrix client reads the events of a poll response its      *)
(* cursor already is the cursor of that response; the events it gives to   *)
(* the callback come in the order of the timeline, none twice; the event   *)
(* it reads next lies after every event it has read; and no event left     *)
(* unread by a lifecycle that failed is ever given to the callback.        *)
C21_EventsEmittedAtMostOnce ==
    \A t \in Idx :
        Type(t) = "matrix" =>
            /\ (lines[t] > 0 \/ pc[t] = "route") => at[t] = upto[t]
            /\ \A i \in DOMAIN emitted[t] : \A j \in DOMAIN emitted[t] :
                   i < j => emitted[t][i] < emitted[t][j]
            /\ \A i \in DOMAIN emitted[t] : emitted[t][i] <= taken[t]
            /\ (pc[t] = "mon" /\ lines[t] > 0) => Place(t) > taken[t]
            /\ Range(emitted[t]) \cap lost[t] = {}

(* A response was left partway by a failure, with an event given to the    *)
(* callback and an event unread, and after recovery a later event was      *)
(* given to the callback.                                                  *)
C21_Witness ==
    \E t \in Idx :
        /\ Type(t) = "matrix"
        /\ \E i \in lost[t] : \E a \in Range(emitted[t]) : \E b \in Range(emitted[t]) :
               a < i /\ i < b

====
